---- MODULE Spec2Model ----
(***************************************************************************)
(* Tiling layout engine of the multi-stream viewer: the VideoGrid width    *)
(* ledger (streamWidths), the separator resize handlers, drag-and-drop     *)
(* reorder, and the MultiTwitchViewer pane set / focus / mode state.       *)
(*                                                                         *)
(* Widths are JavaScript numbers (percentages).  They are modelled in      *)
(* exact fixed point: one unit is 1/300 of a percentage point, so that     *)
(* 100/1, 100/2, 100/3 and 100/4 are all integers and the 0.01 noise floor *)
(* of the resize handlers is 3 units.  Pointer deltas are given in tenths  *)
(* of a pixel (touch coordinates are fractional).                          *)
(***************************************************************************)
EXTENDS Integers, Sequences, FiniteSets, TLC

VARIABLES
    streams,            \* MultiTwitchViewer.streams: sequence of pane identities (usernames)
    isSetupComplete,    \* MultiTwitchViewer.isSetupComplete
    viewMode,           \* MultiTwitchViewer.viewMode: "split" | "single"
    activeStreamIndex,  \* MultiTwitchViewer.activeStreamIndex (0-based)
    isMobile,           \* MultiTwitchViewer.isMobile (viewport class narrow)
    streamWidths,       \* VideoGrid.streamWidths: identity -> width (units); empty while VideoGrid is unmounted
    isDragging,         \* VideoGrid.isDragging (a separator drag is in progress)
    sepIsDragging,      \* separators whose ResizableSeparator.isDragging is true; a separator
                        \* is named by the pane on its left
    lastPositionRef,    \* ResizableSeparator.lastPositionRef.current of each separator
    overlays,           \* number of capture overlays appended to document.body
    listeners,          \* move/release handler pairs registered on document, in order of
                        \* registration, each with the onResize closure of its gesture
    last,               \* history: the handler that ran last, with its arguments (and, for the
                        \* focus handlers and removals, the activeStreamIndex it found)
    used                \* history: how many operations of each kind have run

gestureVars == <<isDragging, sepIsDragging, lastPositionRef, overlays, listeners>>

vars == <<streams, isSetupComplete, viewMode, activeStreamIndex, isMobile,
          streamWidths, isDragging, sepIsDragging, lastPositionRef, overlays,
          listeners, last, used>>

----------------------------------------------------------------------------
(* Bounds of the model *)

\* pane identities available to setup and to the stream manager
MaxPanes == 5
\* separator move events, pane-set changes or reorders, and mode/focus events of Spec
MaxResizes == 2
MaxLayoutChanges == 1
MaxModeOps == 2
\* separator move events of SpecResize
MaxDeepResizes == 4
\* leftward separator move events of SpecLeft
MaxLeftDrags == 3
\* pane count and mode/focus events of SpecFocus
MaxGridPanes == 13
MaxFocusOps == 4
\* direct handler calls of SpecCalls
MaxCalls == 2
\* pointer events of SpecGesture
MaxGestureEvents == 4
\* separator move events and pane additions/removals of SpecGrow
MaxGrowResizes == 1
MaxGrowChanges == 2

Ids == 1..MaxPanes

\* pointer movements of one separator move event, in tenths of a pixel
DeltaXs == {-4500, 1, 999, 1000, 4500}

\* pointer movements of SpecResize
DeepDeltaXs == DeltaXs \cup {-1000, -999}

\* pointer movements of SpecLeft: leftward only
LeftDeltaXs == {-4500, -3499, -1000, -1}

\* pointer movements of SpecCalls
CallDeltaXs == {-1000, 1000}

\* pointer positions along the drag axis (clientX), in tenths of a pixel
Positions == {0, 1000, 1500}

----------------------------------------------------------------------------
(* Numbers *)

Pct(p) == p * 300

Abs(x) == IF x < 0 THEN 0 - x ELSE x

Min(a, b) == IF a < b THEN a ELSE b

Max(a, b) == IF a > b THEN a ELSE b

minWidth == Pct(15)

maxWidth == Pct(85)

maxWidthAutoFill == Pct(75)

\* 0.01 percentage points
NoiseFloor == 3

\* gridRef.current?.offsetWidth || 1000
containerWidth == 1000

\* (deltaX / containerWidth) * 100, deltaX in tenths of a pixel
DeltaPercentage(deltaX) == (deltaX * Pct(100)) \div (containerWidth * 10)

----------------------------------------------------------------------------
(* Grid partitioner *)

\* variant: three panes are laid out in one row of three
getGridCols_ThreeInARow(count) ==
    IF count <= 3 THEN count
    ELSE IF count <= 4 THEN 2
    ELSE IF count <= 9 THEN 3
    ELSE 4

getGridCols(count) ==
    IF count <= 2 THEN count
    ELSE IF count <= 4 THEN 2
    ELSE IF count <= 9 THEN 3
    ELSE 4

\* 100 / cols for the given pane count (count >= 1)
equalWidth(count) == Pct(100) \div getGridCols(count)

\* organizeStreamsIntoRows: position i (1-based) of a list of n panes
RowIndex(i, n) == (i - 1) \div getGridCols(n)

PosInRow(i, n) == (i - 1) % getGridCols(n)

RowLength(row, n) == Min(getGridCols(n), n - row * getGridCols(n))

isLastInRow(i, n) == PosInRow(i, n) = RowLength(RowIndex(i, n), n) - 1

Rows(n) == IF n = 0 THEN {} ELSE 0..RowIndex(n, n)

RowPositions(row, n) == {i \in 1..n : RowIndex(i, n) = row}

----------------------------------------------------------------------------
(* Width ledger *)

EmptyLedger == [k \in {} |-> 0]

\* prev[k] || 0
Get(prev, k) == IF k \in DOMAIN prev /\ prev[k] # 0 THEN prev[k] ELSE 0

\* { ...prev, [k]: v }
Put(prev, k, v) == [x \in DOMAIN prev \cup {k} |-> IF x = k THEN v ELSE prev[x]]

Range(s) == {s[i] : i \in 1..Len(s)}

\* useState initializer of streamWidths
InitialWidths(strs) == [k \in Range(strs) |-> equalWidth(Len(strs))]

\* variant: every pane-order or pane-set change resets all widths to the equal share
RecomputeWidths_AlwaysReset(prev, strs) ==
    [k \in Range(strs) |-> equalWidth(Len(strs))]

\* variant: widths are never reset, whatever the column count
RecomputeWidths_NeverReset(prev, strs) ==
    [k \in Range(strs) |-> IF k \in DOMAIN prev THEN prev[k] ELSE equalWidth(Len(strs))]

\* variant: a new pane that joins an unchanged grid inherits the full row width
RecomputeWidths_NewPaneFull(prev, strs) ==
    LET cols == getGridCols(Len(strs))
        prevStreamCount == Cardinality(DOMAIN prev)
        prevCols == IF prevStreamCount > 0 THEN getGridCols(prevStreamCount) ELSE 0
    IN  [k \in Range(strs) |->
            IF cols # prevCols THEN equalWidth(Len(strs))
            ELSE IF k \in DOMAIN prev THEN prev[k] ELSE Pct(100)]

\* variant: the reset is decided by comparing pane counts, not column counts
RecomputeWidths_CountCompare(prev, strs) ==
    [k \in Range(strs) |->
        IF Len(strs) # Cardinality(DOMAIN prev) THEN equalWidth(Len(strs))
        ELSE IF k \in DOMAIN prev THEN prev[k] ELSE equalWidth(Len(strs))]

\* variant: the last pane of each row gets no entry
RecomputeWidths_NonLastOnly(prev, strs) ==
    LET cols == getGridCols(Len(strs))
        prevStreamCount == Cardinality(DOMAIN prev)
        prevCols == IF prevStreamCount > 0 THEN getGridCols(prevStreamCount) ELSE 0
    IN  [k \in {strs[i] : i \in {j \in 1..Len(strs) : ~isLastInRow(j, Len(strs))}} |->
            IF cols # prevCols THEN equalWidth(Len(strs))
            ELSE IF k \in DOMAIN prev THEN prev[k] ELSE equalWidth(Len(strs))]

\* variant: the entries of removed panes stay in the ledger
RecomputeWidths_KeepRemoved(prev, strs) ==
    LET cols == getGridCols(Len(strs))
        prevStreamCount == Cardinality(DOMAIN prev)
        prevCols == IF prevStreamCount > 0 THEN getGridCols(prevStreamCount) ELSE 0
    IN  [k \in DOMAIN prev \cup Range(strs) |->
            IF k \in Range(strs) /\ cols # prevCols THEN equalWidth(Len(strs))
            ELSE IF k \in DOMAIN prev THEN prev[k] ELSE equalWidth(Len(strs))]

\* the setStreamWidths updater of useEffect([streams])
RecomputeWidths(prev, strs) ==
    LET cols == getGridCols(Len(strs))
        prevStreamCount == Cardinality(DOMAIN prev)
        prevCols == IF prevStreamCount > 0 THEN getGridCols(prevStreamCount) ELSE 0
        shouldRecalculateAll == cols # prevCols
    IN  [k \in Range(strs) |->
            IF shouldRecalculateAll THEN equalWidth(Len(strs))
            ELSE IF k \in DOMAIN prev THEN prev[k] ELSE equalWidth(Len(strs))]

\* variant: a clamped left side does not give its overflow back to the right side
ResizeWidths_LeakOverflow(prev, leftStream, rightStream, deltaPercentage) ==
    LET leftCurrentWidth == Get(prev, leftStream)
        rightCurrentWidth == Get(prev, rightStream)
        l0 == leftCurrentWidth + deltaPercentage
        r0 == rightCurrentWidth - deltaPercentage
        l1 == Max(minWidth, Min(l0, maxWidth))
        r2 == Max(minWidth, Min(r0, maxWidth))
    IN  IF Abs(l1 - leftCurrentWidth) > NoiseFloor
        THEN Put(Put(prev, leftStream, l1), rightStream, r2)
        ELSE prev

\* variant: the boundary resize uses the auto-fill ceiling of 75
ResizeWidths_Max75(prev, leftStream, rightStream, deltaPercentage) ==
    LET leftCurrentWidth == Get(prev, leftStream)
        rightCurrentWidth == Get(prev, rightStream)
        l0 == leftCurrentWidth + deltaPercentage
        r0 == rightCurrentWidth - deltaPercentage
        l1 == IF l0 < minWidth THEN minWidth
              ELSE IF l0 > maxWidthAutoFill THEN maxWidthAutoFill ELSE l0
        r1 == IF l0 < minWidth THEN r0 - (minWidth - l0)
              ELSE IF l0 > maxWidthAutoFill THEN r0 + (l0 - maxWidthAutoFill) ELSE r0
        r2 == IF r1 < minWidth THEN minWidth
              ELSE IF r1 > maxWidthAutoFill THEN maxWidthAutoFill ELSE r1
        l2 == IF r1 < minWidth THEN l1 - (minWidth - r1)
              ELSE IF r1 > maxWidthAutoFill THEN l1 + (r1 - maxWidthAutoFill) ELSE l1
    IN  IF /\ l2 >= minWidth /\ l2 <= maxWidthAutoFill
           /\ r2 >= minWidth /\ r2 <= maxWidthAutoFill
           /\ Abs(l2 - leftCurrentWidth) > NoiseFloor
        THEN Put(Put(prev, leftStream, l2), rightStream, r2)
        ELSE prev

\* the setStreamWidths updater of handleStreamResize
ResizeWidths(prev, leftStream, rightStream, deltaPercentage) ==
    LET leftCurrentWidth == Get(prev, leftStream)
        rightCurrentWidth == Get(prev, rightStream)
        l0 == leftCurrentWidth + deltaPercentage
        r0 == rightCurrentWidth - deltaPercentage
        l1 == IF l0 < minWidth THEN minWidth
              ELSE IF l0 > maxWidth THEN maxWidth ELSE l0
        r1 == IF l0 < minWidth THEN r0 - (minWidth - l0)
              ELSE IF l0 > maxWidth THEN r0 + (l0 - maxWidth) ELSE r0
        r2 == IF r1 < minWidth THEN minWidth
              ELSE IF r1 > maxWidth THEN maxWidth ELSE r1
        l2 == IF r1 < minWidth THEN l1 - (minWidth - r1)
              ELSE IF r1 > maxWidth THEN l1 + (r1 - maxWidth) ELSE l1
    IN  IF /\ l2 >= minWidth /\ l2 <= maxWidth
           /\ r2 >= minWidth /\ r2 <= maxWidth
           /\ Abs(l2 - leftCurrentWidth) > NoiseFloor
        THEN Put(Put(prev, leftStream, l2), rightStream, r2)
        ELSE prev

\* variant: the auto-fill resize uses the boundary ceiling of 85
AutoFillWidths_Max85(prev, streamUsername, deltaPercentage) ==
    LET currentWidth == Get(prev, streamUsername)
        newWidth == Max(minWidth, Min(currentWidth + deltaPercentage, maxWidth))
    IN  IF Abs(newWidth - currentWidth) > NoiseFloor
        THEN Put(prev, streamUsername, newWidth)
        ELSE prev

\* variant: every call writes the clamped width, however small the change
AutoFillWidths_NoNoiseFloor(prev, streamUsername, deltaPercentage) ==
    Put(prev, streamUsername,
        Max(minWidth, Min(Get(prev, streamUsername) + deltaPercentage, maxWidthAutoFill)))

\* variant: the auto-fill resize lets the dragged pane shrink to 10
AutoFillWidths_Min10(prev, streamUsername, deltaPercentage) ==
    LET currentWidth == Get(prev, streamUsername)
        newWidth == Max(Pct(10), Min(currentWidth + deltaPercentage, maxWidthAutoFill))
    IN  IF Abs(newWidth - currentWidth) > NoiseFloor
        THEN Put(prev, streamUsername, newWidth)
        ELSE prev

\* the setStreamWidths updater of handleStreamResizeWithAutoFill
AutoFillWidths(prev, streamUsername, deltaPercentage) ==
    LET currentWidth == Get(prev, streamUsername)
        newWidth == Max(minWidth, Min(currentWidth + deltaPercentage, maxWidthAutoFill))
    IN  IF Abs(newWidth - currentWidth) > NoiseFloor
        THEN Put(prev, streamUsername, newWidth)
        ELSE prev

----------------------------------------------------------------------------
(* Pane order *)

IndexOf(strs, id) ==
    IF id \in Range(strs) THEN CHOOSE i \in 1..Len(strs) : strs[i] = id ELSE 0

\* streams.filter(s => s.username !== id)
Without(strs, id) == SelectSeq(strs, LAMBDA s : s # id)

\* variant: the dragged pane and the pane it is dropped on swap places
arrayMove_Swap(strs, from, to) ==
    [i \in 1..Len(strs) |->
        IF i = from + 1 THEN strs[to + 1]
        ELSE IF i = to + 1 THEN strs[from + 1]
        ELSE strs[i]]

\* arrayMove of @dnd-kit/sortable, 0-based indices as in the library:
\*   newArray.splice(to < 0 ? newArray.length + to : to, 0, newArray.splice(from, 1)[0])
\* (from is the index of a current pane; to may be -1 when findIndex finds nothing)
arrayMove(strs, from, to) ==
    LET rest == SubSeq(strs, 1, from) \o SubSeq(strs, from + 2, Len(strs))
        at == Min(IF to < 0 THEN Max(Len(strs) + to, 0) ELSE to, Len(rest))
    IN  SubSeq(rest, 1, at) \o <<strs[from + 1]>> \o SubSeq(rest, at + 1, Len(rest))

----------------------------------------------------------------------------
(* Rendering *)

\* VideoGrid is rendered by MultiTwitchViewer
GridMounted == isSetupComplete /\ Len(streams) > 0

\* VideoGrid takes the split-view branch (not isMobile, not viewMode "single")
SplitView == GridMounted /\ ~isMobile /\ viewMode = "split"

\* variant: the single-pane branch is taken only on request
EffectiveModeOf_RequestedOnly(mobile, mode) ==
    IF mode = "single" THEN "Focused" ELSE "Tiling"

\* the branch VideoGrid renders: if (isMobile || viewMode === "single") the
\* single stream view (Focused), else the resizable rows (Tiling)
EffectiveModeOf(mobile, mode) ==
    IF mobile \/ mode = "single" THEN "Focused" ELSE "Tiling"

EffectiveMode == EffectiveModeOf(isMobile, viewMode)

\* sum of the explicit widths of the non-last panes of a row
RECURSIVE SumWidths(_, _)
SumWidths(w, ids) ==
    IF ids = {} THEN 0
    ELSE LET k == CHOOSE x \in ids : TRUE
         IN  Get(w, k) + SumWidths(w, ids \ {k})

\* explicit widths of the non-last panes of a row of the list strs under ledger w
ExplicitSumIn(strs, w, row) ==
    SumWidths(w, {strs[i] : i \in {j \in RowPositions(row, Len(strs)) :
                                        ~isLastInRow(j, Len(strs))}})

\* width the pane at position i is rendered with: its ledger width (or the equal
\* share of its row when it has none), or the remaining row space (flex-1, never
\* negative) when it is the last pane of its row
RenderedWidthIn(strs, w, i) ==
    IF isLastInRow(i, Len(strs))
    THEN Max(0, Pct(100) - ExplicitSumIn(strs, w, RowIndex(i, Len(strs))))
    ELSE IF Get(w, strs[i]) # 0 THEN w[strs[i]]
         ELSE Pct(100) \div RowLength(RowIndex(i, Len(strs)), Len(strs))

ExplicitSum(row) == ExplicitSumIn(streams, streamWidths, row)

RenderedWidth(i) == RenderedWidthIn(streams, streamWidths, i)

----------------------------------------------------------------------------
(* State machine *)

NoOp == [op |-> "none", a |-> 0, b |-> 0, d |-> 0]

Op(name, x, y, delta) == [op |-> name, a |-> x, b |-> y, d |-> delta]

Spend(kind) == [used EXCEPT ![kind] = @ + 1]

Init ==
    /\ streams = <<>>
    /\ isSetupComplete = FALSE
    /\ viewMode = "split"
    /\ activeStreamIndex = 0
    /\ isMobile = FALSE
    /\ streamWidths = EmptyLedger
    /\ last = NoOp
    /\ used = [resize |-> 0, layout |-> 0, mode |-> 0, gesture |-> 0]
    /\ isDragging = FALSE
    /\ sepIsDragging = {}
    /\ lastPositionRef = [k \in Ids |-> 0]
    /\ overlays = 0
    /\ listeners = <<>>

\* streamWidths after MultiTwitchViewer has set streams to strs: VideoGrid is
\* mounted (initializer, then effect), re-rendered (effect) or unmounted
WidthsAfter(strs) ==
    IF strs = <<>> THEN EmptyLedger
    ELSE IF streams = <<>> THEN RecomputeWidths(InitialWidths(strs), strs)
    ELSE RecomputeWidths(streamWidths, strs)

\* handleStreamsSetup with the list of n distinct usernames 1..n
StreamsSetup(n) ==
    /\ ~isSetupComplete
    /\ streams' = [i \in 1..n |-> i]
    /\ isSetupComplete' = TRUE
    /\ activeStreamIndex' = 0
    /\ streamWidths' = WidthsAfter([i \in 1..n |-> i])
    /\ last' = Op("setup", n, 0, 0)
    /\ UNCHANGED <<viewMode, isMobile, used>>
    /\ UNCHANGED gestureVars

\* handleBackToSetup
BackToSetup ==
    /\ isSetupComplete
    /\ isSetupComplete' = FALSE
    /\ streams' = <<>>
    /\ activeStreamIndex' = 0
    /\ streamWidths' = WidthsAfter(<<>>)
    /\ last' = Op("backToSetup", 0, 0, 0)
    /\ used' = Spend("layout")
    /\ UNCHANGED <<viewMode, isMobile>>
    /\ UNCHANGED gestureVars

\* variant: the focus index is never moved by a pane-set update
ActiveAfterUpdate_Keep(updatedStreams) ==
    IF Len(updatedStreams) = 0 THEN 0 ELSE activeStreamIndex

\* activeStreamIndex after handleStreamsUpdate(updatedStreams)
ActiveAfterUpdate(updatedStreams) ==
    IF Len(updatedStreams) = 0 THEN 0
    ELSE IF \/ activeStreamIndex >= Len(streams)
            \/ streams[activeStreamIndex + 1] \notin Range(updatedStreams)
         THEN 0
         ELSE activeStreamIndex

\* handleStreamsUpdate
StreamsUpdate(updatedStreams) ==
    /\ streams' = updatedStreams
    /\ activeStreamIndex' = ActiveAfterUpdate(updatedStreams)
    /\ streamWidths' = WidthsAfter(updatedStreams)
    /\ UNCHANGED <<isSetupComplete, viewMode, isMobile>>
    /\ UNCHANGED gestureVars

\* StreamManagerModal.addStreamByValue; last records the width the pane held when
\* it was removed, if the handler that ran before was its removal (b)
AddStream(id) ==
    /\ isSetupComplete
    /\ id \notin Range(streams)
    /\ StreamsUpdate(Append(streams, id))
    /\ last' = Op("add", id,
                  IF last.op \in {"remove", "quickRemove"} /\ last.a = id THEN last.d ELSE 0,
                  0)
    /\ used' = Spend("layout")

\* variant: the remove buttons are enabled whatever the pane count
canRemove_Always(strs) == TRUE

\* canRemove={streams.length > 1} of both remove buttons
canRemove(strs) == Len(strs) > 1

\* click on the remove button of a StreamItem in the stream manager: the button is
\* disabled unless canRemove, otherwise StreamManagerModal.handleRemoveStream
\* runs; last records the focus index found (b) and the width the pane held (d)
RemoveStreamManager(id) ==
    /\ isSetupComplete
    /\ id \in Range(streams)
    /\ IF canRemove(streams)
       THEN StreamsUpdate(Without(streams, id))
       ELSE UNCHANGED <<streams, activeStreamIndex, streamWidths, isSetupComplete,
                        viewMode, isMobile, gestureVars>>
    /\ last' = Op("remove", id, activeStreamIndex, Get(streamWidths, id))
    /\ used' = Spend("layout")

\* QuickStreamActions.handleRemove (if (onRemove && canRemove)) -> VideoGrid
\* onStreamRemove
RemoveStreamQuick(id) ==
    /\ SplitView
    /\ id \in Range(streams)
    /\ IF canRemove(streams)
       THEN StreamsUpdate(Without(streams, id))
       ELSE UNCHANGED <<streams, activeStreamIndex, streamWidths, isSetupComplete,
                        viewMode, isMobile, gestureVars>>
    /\ last' = Op("quickRemove", id, activeStreamIndex, Get(streamWidths, id))
    /\ used' = Spend("layout")

\* variant: the reorder leaves the focus index where it was
ActiveAfterReorder_Keep(newStreams) == activeStreamIndex

\* activeStreamIndex after handleStreamReorder(newStreams)
ActiveAfterReorder(newStreams) ==
    IF /\ activeStreamIndex < Len(streams)
       /\ streams[activeStreamIndex + 1] \in Range(newStreams)
    THEN IndexOf(newStreams, streams[activeStreamIndex + 1]) - 1
    ELSE activeStreamIndex

\* handleDragEnd -> handleStreamReorder; overId = 0 stands for no drop target
\* (over is null).  last.d records whether onStreamReorder was called (1) or not (0).
DragEnd(activeId, overId) ==
    /\ SplitView
    /\ activeId \in Range(streams)
    /\ IF overId # 0 /\ activeId # overId
       THEN LET newStreams == arrayMove(streams, IndexOf(streams, activeId) - 1,
                                        IndexOf(streams, overId) - 1)
            IN  /\ streams' = newStreams
                /\ activeStreamIndex' = ActiveAfterReorder(newStreams)
                /\ streamWidths' = WidthsAfter(newStreams)
                /\ last' = Op("dragEnd", activeId, overId, 1)
       ELSE /\ UNCHANGED <<streams, activeStreamIndex, streamWidths>>
            /\ last' = Op("dragEnd", activeId, overId, 0)
    /\ used' = Spend("layout")
    /\ UNCHANGED <<isSetupComplete, viewMode, isMobile>>
    /\ UNCHANGED gestureVars

\* handleStreamResize(leftStreamUsername, rightStreamUsername, deltaX)
StreamResize(leftStream, rightStream, deltaX) ==
    /\ streamWidths' = ResizeWidths(streamWidths, leftStream, rightStream,
                                    DeltaPercentage(deltaX))
    /\ last' = Op("resizeBoundary", leftStream, rightStream, DeltaPercentage(deltaX))
    /\ used' = Spend("resize")
    /\ UNCHANGED <<streams, isSetupComplete, viewMode, activeStreamIndex, isMobile>>
    /\ UNCHANGED gestureVars

\* handleStreamResizeWithAutoFill(streamUsername, deltaX)
StreamResizeWithAutoFill(streamUsername, deltaX) ==
    /\ streamWidths' = AutoFillWidths(streamWidths, streamUsername, DeltaPercentage(deltaX))
    /\ last' = Op("resizeWithAutoFill", streamUsername, 0, DeltaPercentage(deltaX))
    /\ used' = Spend("resize")
    /\ UNCHANGED <<streams, isSetupComplete, viewMode, activeStreamIndex, isMobile>>
    /\ UNCHANGED gestureVars

\* ResizableSeparator onResize of the separator after position i (1-based),
\* routed to handleStreamResizeWithAutoFill or handleStreamResize
SeparatorResize(i, deltaX) ==
    /\ SplitView
    /\ i \in 1..Len(streams)
    /\ ~isLastInRow(i, Len(streams))
    /\ LET leftStream == streams[i]
           rightStream == streams[i + 1]
           isRightStreamLast == isLastInRow(i + 1, Len(streams))
       IN  IF isRightStreamLast
           THEN StreamResizeWithAutoFill(leftStream, deltaX)
           ELSE StreamResize(leftStream, rightStream, deltaX)

\* ViewModeToggle -> setViewMode
SetViewMode(mode) ==
    /\ isSetupComplete
    /\ Len(streams) > 1
    /\ ~isMobile
    /\ viewMode' = mode
    /\ last' = Op("setViewMode", 0, 0, 0)
    /\ used' = Spend("mode")
    /\ UNCHANGED <<streams, isSetupComplete, activeStreamIndex, isMobile, streamWidths>>
    /\ UNCHANGED gestureVars

\* variant: a viewport-class change rebuilds the grid with fresh widths
CheckMobile_Remount(narrow) ==
    /\ isMobile' = narrow
    /\ last' = Op("checkMobile", IF narrow THEN 1 ELSE 0, IF isMobile THEN 1 ELSE 0, 0)
    /\ used' = Spend("mode")
    /\ streamWidths' = IF streams = <<>> THEN EmptyLedger ELSE InitialWidths(streams)
    /\ UNCHANGED <<streams, isSetupComplete, viewMode, activeStreamIndex>>
    /\ UNCHANGED gestureVars

\* checkMobile on a window resize event: innerWidth < 1024; last records the
\* new class (a: 1 narrow, 0 wide) and the class held before (b)
CheckMobile(narrow) ==
    /\ isMobile' = narrow
    /\ last' = Op("checkMobile", IF narrow THEN 1 ELSE 0, IF isMobile THEN 1 ELSE 0, 0)
    /\ used' = Spend("mode")
    /\ UNCHANGED <<streams, isSetupComplete, viewMode, activeStreamIndex, streamWidths>>
    /\ UNCHANGED gestureVars

\* desktop stream selector of the single view: onActiveStreamChange(index)
ActiveStreamChange(index) ==
    /\ GridMounted
    /\ ~isMobile
    /\ viewMode = "single"
    /\ Len(streams) > 1
    /\ index \in 0..(Len(streams) - 1)
    /\ activeStreamIndex' = index
    /\ last' = Op("select", index, 0, 0)
    /\ used' = Spend("mode")
    /\ UNCHANGED <<streams, isSetupComplete, viewMode, isMobile, streamWidths>>
    /\ UNCHANGED gestureVars

\* mobile Previous button; last records the index found (a)
PreviousStream ==
    /\ GridMounted
    /\ isMobile
    /\ Len(streams) > 1
    /\ activeStreamIndex' = IF activeStreamIndex = 0 THEN Len(streams) - 1
                            ELSE activeStreamIndex - 1
    /\ last' = Op("previous", activeStreamIndex, 0, 0)
    /\ used' = Spend("mode")
    /\ UNCHANGED <<streams, isSetupComplete, viewMode, isMobile, streamWidths>>
    /\ UNCHANGED gestureVars

\* variant: the Next button stops at the last pane
NextStream_NoWrap ==
    /\ GridMounted
    /\ isMobile
    /\ Len(streams) > 1
    /\ activeStreamIndex' = IF activeStreamIndex = Len(streams) - 1 THEN activeStreamIndex
                            ELSE activeStreamIndex + 1
    /\ last' = Op("next", activeStreamIndex,
                  IF last.op = "next" THEN last.b + 1 ELSE 1,
                  IF last.op = "next" THEN last.d ELSE activeStreamIndex)
    /\ used' = Spend("mode")
    /\ UNCHANGED <<streams, isSetupComplete, viewMode, isMobile, streamWidths>>
    /\ UNCHANGED gestureVars

\* mobile Next button; last records the index found (a), how many Next clicks
\* have run in a row (b) and the index the first of them found (d)
NextStream ==
    /\ GridMounted
    /\ isMobile
    /\ Len(streams) > 1
    /\ activeStreamIndex' = IF activeStreamIndex = Len(streams) - 1 THEN 0
                            ELSE activeStreamIndex + 1
    /\ last' = Op("next", activeStreamIndex,
                  IF last.op = "next" THEN last.b + 1 ELSE 1,
                  IF last.op = "next" THEN last.d ELSE activeStreamIndex)
    /\ used' = Spend("mode")
    /\ UNCHANGED <<streams, isSetupComplete, viewMode, isMobile, streamWidths>>
    /\ UNCHANGED gestureVars

----------------------------------------------------------------------------
(* Separator gestures (ResizableSeparator) *)

\* the handler pair handleMouseDown / handleTouchStart registers on document for
\* the separator after position i: the separator it belongs to, and the pane
\* names and routing of the onResize closure of the render it was created in;
\* start, sum and shared are history: the position at gesture start, the sum of
\* the deltas the gesture has emitted, and whether another gesture has started
\* on the same separator (and so written the same ref) during this one
Gesture(kind, i, x) ==
    [kind |-> kind, sep |-> streams[i], right |-> streams[i + 1],
     autoFill |-> isLastInRow(i + 1, Len(streams)), start |-> x, sum |-> 0,
     shared |-> \E k \in 1..Len(listeners) : listeners[k].sep = streams[i]]

\* the registered handlers after a further gesture has started on separator sep
MarkShared(ls, sep) ==
    [k \in 1..Len(ls) |-> IF ls[k].sep = sep THEN [ls[k] EXCEPT !.shared = TRUE]
                          ELSE ls[k]]

\* onResize(deltaX) of a gesture, applied to the ledger w
onResize(w, g, deltaX) ==
    IF g.autoFill
    THEN AutoFillWidths(w, g.sep, DeltaPercentage(deltaX))
    ELSE ResizeWidths(w, g.sep, g.right, DeltaPercentage(deltaX))

KindOf(ls, kind) == SelectSeq(ls, LAMBDA g : g.kind = kind)

SepsOf(ls) == {ls[k].sep : k \in 1..Len(ls)}

\* a separator is rendered after position i of the tiling view
SeparatorAt(i) ==
    /\ SplitView
    /\ i \in 1..Len(streams)
    /\ ~isLastInRow(i, Len(streams))

\* handleMouseDown of the separator after position i, pointer at x
MouseDown(i, x) ==
    /\ SeparatorAt(i)
    /\ sepIsDragging' = sepIsDragging \cup {streams[i]}
    /\ isDragging' = TRUE
    /\ lastPositionRef' = [lastPositionRef EXCEPT ![streams[i]] = x]
    /\ overlays' = overlays + 1
    /\ listeners' = Append(MarkShared(listeners, streams[i]), Gesture("mouse", i, x))
    /\ last' = Op("mouseDown", streams[i], 1, x)
    /\ used' = Spend("gesture")
    /\ UNCHANGED <<streams, isSetupComplete, viewMode, activeStreamIndex, isMobile,
                   streamWidths>>

\* handleTouchStart of the separator after position i; hasTouch: e.touches[0]
\* is defined, with clientX = x
TouchStart(i, x, hasTouch) ==
    /\ SeparatorAt(i)
    /\ sepIsDragging' = sepIsDragging \cup {streams[i]}
    /\ isDragging' = TRUE
    /\ IF hasTouch
       THEN /\ lastPositionRef' = [lastPositionRef EXCEPT ![streams[i]] = x]
            /\ overlays' = overlays + 1
            /\ listeners' = Append(MarkShared(listeners, streams[i]),
                                   Gesture("touch", i, x))
       ELSE UNCHANGED <<lastPositionRef, overlays, listeners>>
    /\ last' = IF hasTouch THEN Op("touchStart", streams[i], 1, x)
                ELSE Op("touchStart", streams[i], 0, 0)
    /\ used' = Spend("gesture")
    /\ UNCHANGED <<streams, isSetupComplete, viewMode, activeStreamIndex, isMobile,
                   streamWidths>>

\* the registered move handlers of one kind run, in order of registration, on a
\* move event at position x: each emits deltaX = x - lastPositionRef.current when
\* that is not 0 and then records x.  acc: the ledger, the refs, the listeners
\* (with their history), the separators resized and the number of onResize calls
RECURSIVE RunMoveHandlers(_, _, _, _)
RunMoveHandlers(acc, k, kind, x) ==
    IF k > Len(acc.ls) THEN acc
    ELSE LET g == acc.ls[k]
             deltaX == x - acc.refs[g.sep]
         IN  IF g.kind = kind /\ deltaX # 0
             THEN RunMoveHandlers(
                      [w |-> onResize(acc.w, g, deltaX),
                       refs |-> [acc.refs EXCEPT ![g.sep] = x],
                       ls |-> [acc.ls EXCEPT ![k].sum = @ + deltaX],
                       seps |-> acc.seps \cup {g.sep},
                       calls |-> acc.calls + 1],
                      k + 1, kind, x)
             ELSE RunMoveHandlers(acc, k + 1, kind, x)

\* variant: every move handler measures its delta from the position at gesture
\* start (total, not incremental)
MoveResult_FromStart(kind, x) ==
    RunMoveHandlers([w |-> streamWidths,
                     refs |-> [sep \in Ids |->
                                 IF \E k \in 1..Len(listeners) : listeners[k].sep = sep
                                 THEN listeners[CHOOSE k \in 1..Len(listeners) :
                                                    listeners[k].sep = sep].start
                                 ELSE lastPositionRef[sep]],
                     ls |-> listeners, seps |-> {}, calls |-> 0], 1, kind, x)

MoveResult(kind, x) ==
    RunMoveHandlers([w |-> streamWidths, refs |-> lastPositionRef, ls |-> listeners,
                     seps |-> {}, calls |-> 0], 1, kind, x)

\* a mousemove / touchmove event on document (hasTouch: moveEvent.touches[0] is
\* defined; always so for a mouse event) while handlers of that kind are
\* registered.  last records the number of onResize calls (a), the number of
\* separators they came from (b) and the position (d)
PointerMove(kind, x, hasTouch) ==
    /\ KindOf(listeners, kind) # <<>>
    /\ kind = "mouse" => hasTouch
    /\ IF hasTouch
       THEN LET r == MoveResult(kind, x)
            IN  /\ streamWidths' = r.w
                /\ lastPositionRef' = r.refs
                /\ listeners' = r.ls
                /\ last' = Op(IF kind = "mouse" THEN "mouseMove" ELSE "touchMove",
                              r.calls, Cardinality(r.seps), x)
       ELSE /\ UNCHANGED <<streamWidths, lastPositionRef, listeners>>
            /\ last' = Op("touchMove", 0, 0, 0)
    /\ used' = Spend("gesture")
    /\ UNCHANGED <<streams, isSetupComplete, viewMode, activeStreamIndex, isMobile,
                   isDragging, sepIsDragging, overlays>>

\* variant: the release handlers leave the capture overlay in place
PointerUp_KeepOverlay(kind) ==
    /\ KindOf(listeners, kind) # <<>>
    /\ sepIsDragging' = sepIsDragging \ SepsOf(KindOf(listeners, kind))
    /\ isDragging' = FALSE
    /\ listeners' = SelectSeq(listeners, LAMBDA g : g.kind # kind)
    /\ overlays' = overlays
    /\ last' = Op(IF kind = "mouse" THEN "mouseUp" ELSE "touchEnd",
                  Len(KindOf(listeners, kind)), Len(KindOf(listeners, kind)), 0)
    /\ used' = Spend("gesture")
    /\ UNCHANGED <<streams, isSetupComplete, viewMode, activeStreamIndex, isMobile,
                   streamWidths, lastPositionRef>>

\* a mouseup / touchend event on document while release handlers of that kind are
\* registered: each clears its separator's isDragging, calls onResizeEnd,
\* unregisters its handler pair and removes its overlay.  last records the
\* number of gestures ended (a) and of onResizeEnd calls (b)
PointerUp(kind) ==
    /\ KindOf(listeners, kind) # <<>>
    /\ sepIsDragging' = sepIsDragging \ SepsOf(KindOf(listeners, kind))
    /\ isDragging' = FALSE
    /\ listeners' = SelectSeq(listeners, LAMBDA g : g.kind # kind)
    /\ overlays' = overlays - Len(KindOf(listeners, kind))
    /\ last' = Op(IF kind = "mouse" THEN "mouseUp" ELSE "touchEnd",
                  Len(KindOf(listeners, kind)), Len(KindOf(listeners, kind)), 0)
    /\ used' = Spend("gesture")
    /\ UNCHANGED <<streams, isSetupComplete, viewMode, activeStreamIndex, isMobile,
                   streamWidths, lastPositionRef>>

Next ==
    \/ \E n \in 1..MaxPanes : StreamsSetup(n)
    \/ used.layout < MaxLayoutChanges /\ BackToSetup
    \/ \E id \in Ids : used.layout < MaxLayoutChanges /\ AddStream(id)
    \/ \E id \in Ids : used.layout < MaxLayoutChanges /\ RemoveStreamManager(id)
    \/ \E id \in Ids : used.layout < MaxLayoutChanges /\ RemoveStreamQuick(id)
    \/ \E x \in Ids, y \in Range(streams) \cup {0} :
            used.layout < MaxLayoutChanges /\ DragEnd(x, y)
    \/ \E i \in 1..MaxPanes, dx \in DeltaXs :
            used.resize < MaxResizes /\ SeparatorResize(i, dx)
    \/ \E m \in {"split", "single"} : used.mode < MaxModeOps /\ SetViewMode(m)
    \/ \E narrow \in BOOLEAN : used.mode < MaxModeOps /\ CheckMobile(narrow)
    \/ \E index \in 0..(MaxPanes - 1) :
            used.mode < MaxModeOps /\ ActiveStreamChange(index)
    \/ used.mode < MaxModeOps /\ PreviousStream
    \/ used.mode < MaxModeOps /\ NextStream

Spec == Init /\ [][Next]_vars

----------------------------------------------------------------------------
(* The width ledger under separator drags alone: VideoGrid right after it   *)
(* has been constructed for n panes on a wide viewport in split view, then  *)
(* any sequence of at most MaxDeepResizes separator move events.            *)

InitResize ==
    /\ \E n \in 1..MaxPanes :
          /\ streams = [i \in 1..n |-> i]
          /\ streamWidths = InitialWidths([i \in 1..n |-> i])
          /\ last = Op("setup", n, 0, 0)
    /\ isSetupComplete = TRUE
    /\ viewMode = "split"
    /\ activeStreamIndex = 0
    /\ isMobile = FALSE
    /\ used = [resize |-> 0, layout |-> 0, mode |-> 0, gesture |-> 0]
    /\ isDragging = FALSE
    /\ sepIsDragging = {}
    /\ lastPositionRef = [k \in Ids |-> 0]
    /\ overlays = 0
    /\ listeners = <<>>

NextResize ==
    \E i \in 1..MaxPanes, dx \in DeepDeltaXs :
        used.resize < MaxDeepResizes /\ SeparatorResize(i, dx)

SpecResize == InitResize /\ [][NextResize]_vars

----------------------------------------------------------------------------
(* The same freshly constructed grid under leftward separator drags alone.  *)

NextLeft ==
    \E i \in 1..MaxPanes, dx \in LeftDeltaXs :
        used.resize < MaxLeftDrags /\ SeparatorResize(i, dx)

SpecLeft == InitResize /\ [][NextLeft]_vars

----------------------------------------------------------------------------
(* Mode, viewport and focus events alone, on grids of up to MaxGridPanes    *)
(* panes (the setup form and the stream manager put no cap on the count).   *)

InitFocus ==
    /\ \E n \in 1..MaxGridPanes :
          /\ streams = [i \in 1..n |-> i]
          /\ streamWidths = InitialWidths([i \in 1..n |-> i])
          /\ last = Op("setup", n, 0, 0)
    /\ isSetupComplete = TRUE
    /\ viewMode = "split"
    /\ activeStreamIndex = 0
    /\ isMobile = FALSE
    /\ used = [resize |-> 0, layout |-> 0, mode |-> 0, gesture |-> 0]
    /\ isDragging = FALSE
    /\ sepIsDragging = {}
    /\ lastPositionRef = [k \in Ids |-> 0]
    /\ overlays = 0
    /\ listeners = <<>>

NextFocus ==
    /\ used.mode < MaxFocusOps
    /\ \/ \E m \in {"split", "single"} : SetViewMode(m)
       \/ \E narrow \in BOOLEAN : CheckMobile(narrow)
       \/ \E index \in 0..(MaxGridPanes - 1) : ActiveStreamChange(index)
       \/ PreviousStream
       \/ NextStream

SpecFocus == InitFocus /\ [][NextFocus]_vars

----------------------------------------------------------------------------
(* The VideoGrid handlers called directly, with any pane identity as        *)
(* argument: the separator and drag callbacks are closures over the pane    *)
(* names of the render that created them, and their document-level          *)
(* listeners outlive that render, so a call may name a pane that is no      *)
(* longer in the pane set.                                                  *)

NextCalls ==
    /\ used.resize + used.layout < MaxCalls
    /\ \/ \E l \in Ids, dx \in CallDeltaXs :
              \E r \in Ids \ {l} : StreamResize(l, r, dx)
       \/ \E id \in Ids, dx \in CallDeltaXs : StreamResizeWithAutoFill(id, dx)
       \/ \E x \in Ids, y \in Ids \cup {0} : DragEnd(x, y)

SpecCalls == InitResize /\ [][NextCalls]_vars

----------------------------------------------------------------------------
(* Separator gestures alone, on the freshly constructed grid: gesture       *)
(* starts on any rendered separator, and move and release events on         *)
(* document.                                                                *)

NextGesture ==
    /\ used.gesture < MaxGestureEvents
    /\ \/ \E i \in 1..MaxPanes, x \in Positions : MouseDown(i, x)
       \/ \E i \in 1..MaxPanes, x \in Positions, hasTouch \in BOOLEAN :
              TouchStart(i, x, hasTouch)
       \/ \E kind \in {"mouse", "touch"}, x \in Positions, hasTouch \in BOOLEAN :
              PointerMove(kind, x, hasTouch)
       \/ \E kind \in {"mouse", "touch"} : PointerUp(kind)

SpecGesture == InitResize /\ [][NextGesture]_vars

----------------------------------------------------------------------------
(* The freshly constructed grid under separator drags and pane additions    *)
(* and removals in the stream manager, with one more identity to add than   *)
(* the largest initial grid holds.                                          *)

NextGrow ==
    \/ \E i \in 1..MaxPanes, dx \in DeltaXs :
            used.resize < MaxGrowResizes /\ SeparatorResize(i, dx)
    \/ \E id \in 1..(MaxPanes + 1) : used.layout < MaxGrowChanges /\ AddStream(id)
    \/ \E id \in Ids : used.layout < MaxGrowChanges /\ RemoveStreamManager(id)

SpecGrow == InitResize /\ [][NextGrow]_vars

----------------------------------------------------------------------------
(* Properties *)

SetChangeOps == {"add", "remove", "quickRemove"}

\* C1: in every reachable state, for every row of the tiling layout, the explicit
\* widths of the row's non-last panes sum to at most 100, so that together with
\* the non-negative fill width of the last pane the row totals 100.
C1_RowTotals100 ==
    GridMounted =>
        \A row \in Rows(Len(streams)) :
            /\ ExplicitSum(row) <= Pct(100)
            /\ ExplicitSum(row)
                 + RenderedWidth(CHOOSE i \in RowPositions(row, Len(streams)) :
                                     isLastInRow(i, Len(streams))) = Pct(100)

C3_ReorderKeepsWidths ==
    [][last'.op = "dragEnd" =>
          /\ streamWidths' = streamWidths
          /\ Range(streams') = Range(streams)
          /\ Len(streams') = Len(streams)]_vars

\* a pane was dropped on another pane while some pane holds a resized width
C3_Witness ==
    /\ last.op = "dragEnd"
    /\ last.b # 0
    /\ last.b # last.a
    /\ streams # [i \in 1..Len(streams) |-> i]
    /\ \E k \in DOMAIN streamWidths : streamWidths[k] # equalWidth(Len(streams))

\* C4: when adding or removing a pane changes the column count of the grid, every
\* width in the ledger is reset to the equal share 100/newColumns, whatever the
\* widths were before.
C4_ColumnChangeResets ==
    [][(/\ last'.op \in SetChangeOps
        /\ getGridCols(Len(streams')) # getGridCols(Len(streams)))
       => /\ DOMAIN streamWidths' = Range(streams')
          /\ \A k \in Range(streams') :
                streamWidths'[k] = Pct(100) \div getGridCols(Len(streams'))]_vars

\* a pane was removed from a resized 5-pane grid (3 columns), leaving 4 panes
\* (2 columns)
C4_Witness ==
    /\ last.op \in {"remove", "quickRemove"}
    /\ Len(streams) = 4
    /\ used.resize > 0
    /\ \A k \in DOMAIN streamWidths : streamWidths[k] = Pct(50)

\* C5: when adding or removing a pane leaves the column count unchanged, every
\* pane present before and after keeps exactly its previous width, by identity,
\* and a newly added pane receives the equal share 100/columns.
C5_SameColumnsKeepWidths ==
    [][(/\ last'.op \in SetChangeOps
        /\ getGridCols(Len(streams')) = getGridCols(Len(streams)))
       => /\ DOMAIN streamWidths' = Range(streams')
          /\ \A k \in Range(streams') :
                streamWidths'[k] = IF k \in Range(streams) THEN streamWidths[k]
                                   ELSE Pct(100) \div getGridCols(Len(streams'))]_vars

\* a pane was added to a 3-pane grid in which another pane holds a resized width:
\* the old pane still holds it and the new pane holds the equal share
C5_Witness ==
    /\ last.op = "add"
    /\ Len(streams) = 4
    /\ streamWidths[last.a] = Pct(50)
    /\ \E k \in DOMAIN streamWidths : streamWidths[k] # Pct(50)

\* C6: with 3 panes in rows [P1,P2],[P3] and P1 = 50, dragging the P1/P2 separator
\* by +10 points gives P1 = 60, and then removing P3 leaves P1 = 60 with P2 filling
\* the remaining 40; the widths are not reset to 50/50.
C6_ScenarioRemoveThird ==
    [][/\ (/\ Len(streams) = 3
           /\ streamWidths[streams[1]] = Pct(50)
           /\ last'.op = "resizeWithAutoFill"
           /\ last'.a = streams[1]
           /\ last'.d = Pct(10))
          => streamWidths'[streams[1]] = Pct(60)
       /\ (/\ Len(streams) = 3
           /\ streamWidths[streams[1]] = Pct(60)
           /\ last'.op \in {"remove", "quickRemove"}
           /\ last'.a = streams[3])
          => /\ streams' = <<streams[1], streams[2]>>
             /\ RenderedWidthIn(streams', streamWidths', 1) = Pct(60)
             /\ RenderedWidthIn(streams', streamWidths', 2) = Pct(40)]_vars

\* P3 has just been removed after the single +10 drag of the P1/P2 separator
C6_Witness ==
    /\ streams = <<1, 2>>
    /\ last.op \in {"remove", "quickRemove"}
    /\ last.a = 3
    /\ used.resize = 1
    /\ streamWidths[1] = Pct(60)
    /\ RenderedWidth(2) = Pct(40)

InRange(x) == x >= minWidth /\ x <= maxWidth

\* C7: for two panes L, R whose widths lie in [15, 85], resizeBoundary(L, R, delta)
\* conserves width(L) + width(R), leaves both in [15, 85] and leaves every other
\* pane unchanged; a delta that would push either side past a bound is cut off at
\* that bound for both sides (the left width ends at its nearest admissible value,
\* or the ledger stays as it is when that is within the 0.01 noise floor).
C7_BoundaryConserves ==
    [][(/\ last'.op = "resizeBoundary"
        /\ InRange(streamWidths[last'.a])
        /\ InRange(streamWidths[last'.b]))
       => LET L == last'.a
              R == last'.b
              S == streamWidths[L] + streamWidths[R]
              lo == Max(minWidth, S - maxWidth)
              hi == Min(maxWidth, S - minWidth)
              target == Max(lo, Min(streamWidths[L] + last'.d, hi))
          IN  /\ DOMAIN streamWidths' = DOMAIN streamWidths
              /\ streamWidths'[L] + streamWidths'[R] = S
              /\ InRange(streamWidths'[L])
              /\ InRange(streamWidths'[R])
              /\ \A k \in DOMAIN streamWidths \ {L, R} :
                    streamWidths'[k] = streamWidths[k]
              /\ streamWidths'[L] = IF Abs(target - streamWidths[L]) > NoiseFloor
                                    THEN target ELSE streamWidths[L]]_vars

\* a resizeBoundary drag to the right has just been cut off because the right
\* pane reached the 15 floor
C7_Witness ==
    /\ last.op = "resizeBoundary"
    /\ last.d > 0
    /\ streamWidths[last.b] = minWidth
    /\ streamWidths[last.a] < maxWidth

\* C8: when resizeBoundary(A, B, +D) hits no clamp bound, a following
\* resizeBoundary(A, B, -D) restores the width of A, of B and of every other pane.
C8_RoundTrip ==
    [][(/\ last'.op = "resizeBoundary"
        /\ InRange(streamWidths[last'.a])
        /\ InRange(streamWidths[last'.b])
        /\ InRange(streamWidths[last'.a] + last'.d)
        /\ InRange(streamWidths[last'.b] - last'.d))
       => ResizeWidths(streamWidths', last'.a, last'.b, 0 - last'.d)
            = streamWidths]_vars

\* resizeBoundary(1, 2, +10) and then resizeBoundary(1, 2, -10) have run on the
\* fresh 5-pane grid: all widths are back at the equal share
C8_Witness ==
    /\ Len(streams) = 5
    /\ last = Op("resizeBoundary", 1, 2, 0 - Pct(10))
    /\ used.resize = 2
    /\ \A k \in DOMAIN streamWidths : streamWidths[k] = equalWidth(5)

\* C9 as stated: resizeWithAutoFill(pane, delta) sets the pane's width to
\* clamp(oldWidth + delta, 15, 75) and leaves every other entry unchanged.
C9_Original ==
    [][last'.op = "resizeWithAutoFill"
       => streamWidths' =
            [streamWidths EXCEPT ![last'.a] =
                Max(minWidth, Min(streamWidths[last'.a] + last'.d, maxWidthAutoFill))]]_vars

\* C9 amended: resizeWithAutoFill(pane, delta) changes at most the entry of the
\* dragged pane; its new width is clamp(oldWidth + delta, 15, 75) when that differs
\* from oldWidth by more than 0.01, and oldWidth otherwise; every other entry,
\* including the row's auto-filling last pane, is unchanged.
C9_AutoFillOnlyDragged ==
    [][last'.op = "resizeWithAutoFill"
       => LET old == streamWidths[last'.a]
              clamped == Max(minWidth, Min(old + last'.d, maxWidthAutoFill))
          IN  streamWidths' =
                [streamWidths EXCEPT ![last'.a] =
                    IF Abs(clamped - old) > NoiseFloor THEN clamped ELSE old]]_vars

\* a resizeWithAutoFill has just run on a pane whose width lies within 0.01 above
\* the 75 ceiling, and has left it there
C9_Witness ==
    /\ last.op = "resizeWithAutoFill"
    /\ streamWidths[last.a] > maxWidthAutoFill

C11_Original ==
    [][(/\ Len(streams) = 4
        /\ last'.op = "resizeWithAutoFill"
        /\ last'.a = streams[1]
        /\ streamWidths[streams[1]] + last'.d < minWidth)
       => /\ streamWidths'[streams[1]] = minWidth
          /\ RenderedWidthIn(streams', streamWidths', 2) = maxWidth]_vars

\* C11 amended: with 4 panes in a 2x2 grid, a leftward drag event of the P1/P2
\* separator that would take P1 below 15 leaves P1 at exactly 15 when P1 was more
\* than 0.01 above 15, and leaves P1 where it was (within 0.01 of 15) otherwise;
\* P2 is rendered with the rest of the row, 100 - P1; after every drag event P1 is
\* at least 15 and P2 at most 85.
C11_ClampAtFloor ==
    [][(/\ Len(streams) = 4
        /\ last'.op = "resizeWithAutoFill"
        /\ last'.a = streams[1])
       => LET old == streamWidths[streams[1]]
              new == streamWidths'[streams[1]]
          IN  /\ new >= minWidth
              /\ RenderedWidthIn(streams', streamWidths', 2) = Pct(100) - new
              /\ RenderedWidthIn(streams', streamWidths', 2) <= maxWidth
              /\ old + last'.d < minWidth =>
                    /\ new = (IF old - minWidth > NoiseFloor THEN minWidth ELSE old)
                    /\ new <= minWidth + NoiseFloor]_vars

\* after at least two leftward drags of the P1/P2 separator of the 2x2 grid, the
\* last of which was cut off, P1 is at 15 and P2 is rendered at 85
C11_Witness ==
    /\ Len(streams) = 4
    /\ last.op = "resizeWithAutoFill"
    /\ last.a = streams[1]
    /\ used.resize >= 2
    /\ last.d < 0
    /\ streamWidths[streams[1]] = minWidth
    /\ RenderedWidth(2) = maxWidth

\* C12: in every reachable state with at least one pane, activeStreamIndex
\* (focusedIndex) satisfies 0 <= focusedIndex < paneCount.
C12_FocusInRange ==
    Len(streams) >= 1 =>
        activeStreamIndex >= 0 /\ activeStreamIndex < Len(streams)

\* C13: when the pane that is currently focused is removed and at least one
\* pane remains, focusedIndex becomes 0.
C13_RemoveFocusedResets ==
    [][(/\ last'.op \in {"remove", "quickRemove"}
        /\ activeStreamIndex < Len(streams)
        /\ streams[activeStreamIndex + 1] = last'.a
        /\ Len(streams') >= 1)
       => activeStreamIndex' = 0]_vars

\* pane 5 of 5 has just been removed while it was focused (focusedIndex was 4)
C13_Witness ==
    /\ last.op = "remove"
    /\ last.a = 5
    /\ last.b = 4
    /\ streams = <<1, 2, 3, 4>>
    /\ activeStreamIndex = 0

\* C14: in every state with at least one pane, the effective mode is Focused
\* whenever the viewport class is narrow, whatever the requested mode, and equals
\* the requested mode whenever the viewport class is wide.
C14_EffectiveMode ==
    GridMounted =>
        /\ isMobile => EffectiveMode = "Focused"
        /\ ~isMobile => EffectiveMode = (IF viewMode = "single" THEN "Focused" ELSE "Tiling")

\* three panes on a narrow viewport while the requested mode is Tiling
C14_Witness ==
    /\ GridMounted
    /\ Len(streams) = 3
    /\ isMobile
    /\ viewMode = "split"
    /\ EffectiveMode = "Focused"

\* C15: a requested-mode change or a viewport-class change leaves the pane set
\* and every ledger entry unchanged, and a viewport-class change leaves the
\* requested mode unchanged; so a return to a wide viewport with requested mode
\* Tiling shows the Tiling layout with the widths held before.
C15_ModeKeepsLedger ==
    [][/\ last'.op \in {"setViewMode", "checkMobile"}
          => streamWidths' = streamWidths /\ streams' = streams
       /\ last'.op = "checkMobile"
          => /\ viewMode' = viewMode
             /\ (~isMobile' /\ viewMode' = "split")
                   => EffectiveModeOf(isMobile', viewMode') = "Tiling"]_vars

\* the viewport has just returned from narrow to wide with requested mode Tiling,
\* over a grid in which a pane holds a resized width
C15_Witness ==
    /\ last = Op("checkMobile", 0, 1, 0)
    /\ SplitView
    /\ used.resize > 0
    /\ \E k \in DOMAIN streamWidths : streamWidths[k] # equalWidth(Len(streams))

\* C16: for n >= 2 panes and focusedIndex i in [0, n), next() sets focusedIndex to
\* (i + 1) mod n and previous() sets it to (i - 1 + n) mod n; next() followed by
\* previous() returns to i, and n consecutive next() calls return to i.
C16_NavigationWraps ==
    [][(/\ last'.op \in {"next", "previous"}
        /\ Len(streams) >= 2
        /\ activeStreamIndex >= 0
        /\ activeStreamIndex < Len(streams))
       => LET n == Len(streams)
              i == activeStreamIndex
          IN  /\ last'.op = "next" => activeStreamIndex' = (i + 1) % n
              /\ last'.op = "previous" => activeStreamIndex' = (i - 1 + n) % n
              /\ (last.op = "next" /\ last'.op = "previous")
                    => activeStreamIndex' = last.a
              /\ (last'.op = "next" /\ last'.b = n)
                    => activeStreamIndex' = last'.d]_vars

\* three Next clicks in a row on three panes have brought the focus back to the
\* pane it started from
C16_Witness ==
    /\ Len(streams) = 3
    /\ last.op = "next"
    /\ last.b = 3
    /\ last.d = activeStreamIndex

\* C17: onDragEnd(fromId, toId) is a no-op (the pane order is unchanged and no new
\* order is emitted) when fromId equals toId, when there is no drop target, and
\* when toId is not the identity of any current pane.
C17_DragNoOp ==
    [][(/\ last'.op = "dragEnd"
        /\ \/ last'.b = last'.a
           \/ last'.b = 0
           \/ last'.b \notin Range(streams))
       => /\ streams' = streams
          /\ last'.d = 0]_vars

\* C18: for distinct current panes fromId and toId, onDragEnd emits a new order
\* that is a permutation of the old one in which the dragged pane sits at the
\* index toId had before the move and the relative order of all other panes is
\* unchanged.
C18_MoveAndShift ==
    [][(/\ last'.op = "dragEnd"
        /\ last'.a \in Range(streams)
        /\ last'.b \in Range(streams)
        /\ last'.a # last'.b)
       => /\ last'.d = 1
          /\ Len(streams') = Len(streams)
          /\ Range(streams') = Range(streams)
          /\ Cardinality(Range(streams')) = Len(streams')
          /\ streams'[IndexOf(streams, last'.b)] = last'.a
          /\ Without(streams', last'.a) = Without(streams, last'.a)]_vars

\* pane 1 of five has just been dropped on pane 3: it sits at the third place
\* and panes 2 and 3 have shifted left
C18_Witness ==
    /\ last = Op("dragEnd", 1, 3, 1)
    /\ streams = <<2, 3, 1, 4, 5>>

\* C19: a resizeBoundary or resizeWithAutoFill call that names a pane identity
\* with no entry in the ledger leaves the ledger as it was.
C19_UnknownIgnored ==
    [][(/\ last'.op \in {"resizeBoundary", "resizeWithAutoFill"}
        /\ \/ last'.a \notin DOMAIN streamWidths
           \/ last'.op = "resizeBoundary" /\ last'.b \notin DOMAIN streamWidths)
       => streamWidths' = streamWidths]_vars

\* C20 as stated: the grid shape (rows, columns) is 1 -> (1,1); 2 -> (1,2);
\* 3-4 -> (2,2); 5-6 -> (2,3); 7-9 -> (3,3); n > 9 -> (3,4); and
\* rows x columns >= n.
C20_Original ==
    GridMounted =>
        LET n == Len(streams)
            shape == <<Cardinality(Rows(n)), getGridCols(n)>>
        IN  /\ shape = (IF n = 1 THEN <<1, 1>>
                        ELSE IF n = 2 THEN <<1, 2>>
                        ELSE IF n <= 4 THEN <<2, 2>>
                        ELSE IF n <= 6 THEN <<2, 3>>
                        ELSE IF n <= 9 THEN <<3, 3>>
                        ELSE <<3, 4>>)
            /\ shape[1] * shape[2] >= n

\* C20 amended: the grid shape (rows, columns) is 1 -> (1,1); 2 -> (1,2);
\* 3-4 -> (2,2); 5-6 -> (2,3); 7-9 -> (3,3); 10-12 -> (3,4); and for n > 12 the
\* grid has 4 columns and as many rows as the panes need, ceil(n / 4);
\* rows x columns >= n and every pane is placed in one of the rows.
C20_GridShape ==
    GridMounted =>
        LET n == Len(streams)
            shape == <<Cardinality(Rows(n)), getGridCols(n)>>
        IN  /\ shape = (IF n = 1 THEN <<1, 1>>
                        ELSE IF n = 2 THEN <<1, 2>>
                        ELSE IF n <= 4 THEN <<2, 2>>
                        ELSE IF n <= 6 THEN <<2, 3>>
                        ELSE IF n <= 9 THEN <<3, 3>>
                        ELSE IF n <= 12 THEN <<3, 4>>
                        ELSE <<(n + 3) \div 4, 4>>)
            /\ shape[1] * shape[2] >= n
            /\ \A i \in 1..n :
                  /\ RowIndex(i, n) \in Rows(n)
                  /\ PosInRow(i, n) < shape[2]
                  /\ i \in RowPositions(RowIndex(i, n), n)

\* thirteen panes are laid out in four rows of four columns
C20_Witness ==
    /\ GridMounted
    /\ Len(streams) = 13
    /\ Cardinality(Rows(13)) = 4
    /\ RowIndex(13, 13) = 3

ReleaseOps == {"mouseUp", "touchEnd"}

MoveOps == {"mouseMove", "touchMove"}

KindOfOp(op) == IF op \in {"mouseDown", "mouseMove", "mouseUp"} THEN "mouse" ELSE "touch"

\* C21: a gesture start puts the separator in Dragging, and after the release
\* event that ends a gesture the separator is Idle, the capture layer added at
\* gesture start has been removed, its move and release handlers are no longer
\* registered, the end-of-drag signal has been emitted exactly once for it, and
\* the grid's drag-in-progress flag is false.
C21_GestureEnds ==
    [][/\ (last'.op = "mouseDown" \/ (last'.op = "touchStart" /\ last'.b = 1))
          => /\ last'.a \in sepIsDragging'
             /\ isDragging'
             /\ overlays' = overlays + 1
             /\ Len(listeners') = Len(listeners) + 1
       /\ last'.op \in ReleaseOps
          => LET ended == KindOf(listeners, KindOfOp(last'.op))
             IN  /\ ended # <<>>
                 /\ \A k \in 1..Len(ended) : ended[k].sep \notin sepIsDragging'
                 /\ overlays' = overlays - Len(ended)
                 /\ KindOf(listeners', KindOfOp(last'.op)) = <<>>
                 /\ last'.a = Len(ended)
                 /\ last'.b = Len(ended)
                 /\ isDragging' = FALSE]_vars

\* a mouse gesture that resized a pane has just been released: nothing of it is
\* left
C21_Witness ==
    /\ last = Op("mouseUp", 1, 1, 0)
    /\ used.gesture >= 3
    /\ \E k \in DOMAIN streamWidths : streamWidths[k] # equalWidth(Len(streams))
    /\ sepIsDragging = {}
    /\ ~isDragging
    /\ overlays = 0
    /\ listeners = <<>>

\* C22: during one separator gesture each move event emits
\* delta = current position - last recorded position and then records the current
\* position, a move to the already-recorded position emits nothing, and the sum
\* of the deltas emitted during the gesture equals the last pointer position
\* minus the position at gesture start.
C22_IncrementalDeltas ==
    [][last'.op \in MoveOps
       => \A k \in 1..Len(listeners) :
             (listeners[k].kind = KindOfOp(last'.op) /\ ~listeners[k].shared)
             => LET g == listeners[k]
                    emitted == listeners'[k].sum - g.sum
                IN  /\ emitted = lastPositionRef'[g.sep] - lastPositionRef[g.sep]
                    /\ last'.a > 0 => lastPositionRef'[g.sep] = last'.d
                    /\ lastPositionRef[g.sep] = last'.d => emitted = 0
                    /\ listeners'[k].sum = lastPositionRef'[g.sep] - g.start
                    /\ Len(listeners) = 1
                          => /\ last'.a = (IF emitted = 0 THEN 0 ELSE 1)
                             /\ streamWidths' = (IF emitted = 0 THEN streamWidths
                                                 ELSE onResize(streamWidths, g, emitted))]_vars

\* a single gesture has seen three move events, one of them to the position
\* already recorded, and has emitted 150 px in all
C22_Witness ==
    /\ Len(listeners) = 1
    /\ ~listeners[1].shared
    /\ used.gesture = 4
    /\ last.op \in MoveOps
    /\ listeners[1].start = 0
    /\ listeners[1].sum = 1500
    /\ lastPositionRef[listeners[1].sep] = 1500

\* C23: at most one separator gesture is active at any time: never more than one
\* capture layer exists, never more than one set of move/release handlers is
\* registered, and a single move event changes the ledger through at most one
\* separator.
C23_SingleGesture ==
    /\ overlays <= 1
    /\ Len(listeners) <= 1
    /\ last.op \in MoveOps => last.b <= 1

\* C24: after a pane is added without changing the column count, the explicit
\* widths of the non-last panes of the row that received the pane sum to no more
\* than 100, leaving room for the auto-filled last pane.
C24_AddLeavesRoom ==
    [][(/\ last'.op = "add"
        /\ getGridCols(Len(streams')) = getGridCols(Len(streams)))
       => ExplicitSumIn(streams', streamWidths',
                        RowIndex(Len(streams'), Len(streams'))) <= Pct(100)]_vars

\* C25: after every pane-set change the ledger has an entry for exactly the
\* current panes, and an added pane, also one that was removed before with another
\* width, gets the equal share of the grid's columns.
C25_LedgerFollowsPanes ==
    [][last'.op \in SetChangeOps
       => /\ DOMAIN streamWidths' = Range(streams')
          /\ last'.op = "add"
                => streamWidths'[last'.a] = equalWidth(Len(streams'))]_vars

\* P1 of four panes was widened, removed and added again while the grid kept two
\* columns: it is back with the equal share
C25_Witness ==
    /\ last.op = "add"
    /\ Len(streams) = 4
    /\ last.b # 0
    /\ last.b # Pct(50)
    /\ streamWidths[last.a] = Pct(50)
    /\ DOMAIN streamWidths = Range(streams)

\* C26: removing a pane other than the focused one keeps the focus on the same
\* pane: the pane at activeStreamIndex after the removal is the pane that was
\* there before it.
C26_RemoveOtherKeepsFocus ==
    [][(/\ last'.op \in {"remove", "quickRemove"}
        /\ activeStreamIndex < Len(streams)
        /\ last'.a # streams[activeStreamIndex + 1])
       => /\ activeStreamIndex' < Len(streams')
          /\ streams'[activeStreamIndex' + 1] = streams[activeStreamIndex + 1]]_vars

\* C27: a reorder keeps the focus on the same pane: after it, activeStreamIndex is
\* the position in the new order of the pane that was focused before.
C27_ReorderKeepsFocus ==
    [][(/\ last'.op = "dragEnd"
        /\ last'.d = 1
        /\ activeStreamIndex < Len(streams))
       => /\ activeStreamIndex' < Len(streams')
          /\ streams'[activeStreamIndex' + 1] = streams[activeStreamIndex + 1]]_vars

\* the focused first pane was dragged onto the third and is focused at index 2
C27_Witness ==
    /\ last = Op("dragEnd", 1, 3, 1)
    /\ activeStreamIndex = 2
    /\ streams[3] = 1

\* C28: handleStreamResizeWithAutoFill is monotone in the drag direction: a call
\* with a positive delta never decreases the dragged pane's width and a call with
\* a negative delta never increases it, for every width the ledger can hold.
C28_AutoFillMonotone ==
    [][last'.op = "resizeWithAutoFill"
       => /\ last'.d > 0
                => Get(streamWidths', last'.a) >= Get(streamWidths, last'.a)
          /\ last'.d < 0
                => Get(streamWidths', last'.a) <= Get(streamWidths, last'.a)]_vars

\* C29: whenever a separator's isDragging flag or the grid's isDragging flag is
\* set, a release handler of that gesture is registered on document, so that the
\* next release event clears the flags.
C29_DraggingHasRelease ==
    /\ \A sep \in sepIsDragging :
          \E k \in 1..Len(listeners) : listeners[k].sep = sep
    /\ isDragging => listeners # <<>>

\* C30: once setup has completed with at least one pane, no remove request, from
\* the quick action or from the stream manager, brings the pane count below 1: a
\* request made while one pane remains leaves the pane list unchanged, and the
\* list becomes empty only through back-to-setup.
C30_RemoveKeepsOnePane ==
    [][/\ (last'.op \in {"remove", "quickRemove"} /\ Len(streams) >= 1)
          => /\ Len(streams') >= 1
             /\ Len(streams) = 1 => streams' = streams
       /\ (streams # <<>> /\ streams' = <<>>) => last'.op = "backToSetup"]_vars

\* a remove request for the only pane was made and the pane is still there
C30_Witness ==
    /\ last.op \in {"remove", "quickRemove"}
    /\ streams = <<last.a>>

====
